---------------------------- MODULE Spec2Model ----------------------------
(***************************************************************************)
(* passDb (src/main.py): a password vault over one table ACCOUNT, whose    *)
(* password column is encrypted through GnuPG.  The model covers the       *)
(* dynamic query construction (buildWhereClause, search, deleteEntries)    *)
(* and the cipher mode selection (EncryptPassword, DecryptPassword,        *)
(* transcodeDb).                                                           *)
(*                                                                         *)
(* Text is a sequence of one-character strings.  An optional value (a      *)
(* Python value that may be None) is a sequence of length 0 or 1.          *)
(***************************************************************************)
EXTENDS Integers, Sequences, FiniteSets, TLC

\* ------------------------------------------------------------------ bounds
\* most rows the vault holds
MaxRows == 2
\* most copies updateEntry leaves behind
MaxCopies == 1

\* ------------------------------------------------------------ text helpers
None == << >>
Some(x) == << x >>
Optional(S) == { None } \cup { Some(t) : t \in S }

\* the service / username / tag filter texts given on the command line: empty,
\* plain, the two LIKE wildcards, the SQL string delimiter alone and doubled
Texts == { << >>, << "a" >>, << "a", "b" >>, << "%" >>, << "_" >>, << "'" >>,
           << "'", "'" >> }
\* the id filter texts: empty, two ids in use, one not in use
IdTexts == { << >>, << "1" >>, << "2" >>, << "7" >> }

\* Python truthiness of an optional str: None and '' are both false
Truthy(o) == o # None /\ o[1] # << >>

\* str.lower() on one character
Lower(c) ==
    CASE c = "A" -> "a"
      [] c = "B" -> "b"
      [] c = "N" -> "n"
      [] c = "Y" -> "y"
      [] OTHER -> c

\* --------------------------------------------------------- buildWhereClause
\* The where clause is the interpolated text itself.  The fixed pieces of the
\* f-strings are kept as single elements; the quote, the wildcard the code
\* adds and every character of the caller's text are elements of their own.
Q == "'"
Quoted(t) == << Q >> \o t \o << Q >>
Wild(t) == << Q, "%" >> \o t \o << "%", Q >>

WhereFrags == { "where id=", "where service=", "where username like ",
                "where service like ", "where tag like " }
AndFrags == { " and username=", " and tag like " }
Frags == WhereFrags \cup AndFrags

buildWhereClause(id, service, username, tag) ==
    IF Truthy(id) THEN
        Some(<< "where id=" >> \o Quoted(id[1]))
    ELSE IF Truthy(service) /\ Truthy(username) /\ Truthy(tag) THEN
        Some(<< "where service=" >> \o Quoted(service[1])
             \o << " and username=" >> \o Quoted(username[1])
             \o << " and tag like " >> \o Wild(tag[1]))
    ELSE IF Truthy(service) /\ Truthy(username) THEN
        Some(<< "where service=" >> \o Quoted(service[1])
             \o << " and username=" >> \o Quoted(username[1]))
    ELSE IF Truthy(service) /\ Truthy(tag) THEN
        Some(<< "where service=" >> \o Quoted(service[1])
             \o << " and tag like " >> \o Wild(tag[1]))
    ELSE IF Truthy(username) /\ Truthy(tag) THEN
        Some(<< "where username like " >> \o Wild(username[1])
             \o << " and tag like " >> \o Wild(tag[1]))
    ELSE IF Truthy(service) THEN
        Some(<< "where service like " >> \o Wild(service[1]))
    ELSE IF Truthy(tag) THEN
        Some(<< "where tag like " >> \o Wild(tag[1]))
    ELSE None

\* ------------------------------------------------- the store's SQL reading
\* SQLite's reading of the clause: tokens first.  Inside a string literal
\* every element is content and '' is an escaped quote; outside, a fixed
\* piece is column plus operator, % is the modulo operator and anything
\* else is an identifier.
Tok(t, v) == [t |-> t, v |-> v]

RECURSIVE Lex(_, _, _), LexStr(_, _, _, _)
Lex(s, i, toks) ==
    IF i > Len(s) THEN toks
    ELSE IF s[i] = Q THEN LexStr(s, i + 1, << >>, toks)
    ELSE IF s[i] = "%" THEN Lex(s, i + 1, Append(toks, Tok("pct", << >>)))
    ELSE IF s[i] \in Frags THEN Lex(s, i + 1, Append(toks, Tok("kw", << s[i] >>)))
    ELSE Lex(s, i + 1, Append(toks, Tok("ident", << s[i] >>)))
LexStr(s, i, acc, toks) ==
    IF i > Len(s) THEN Append(toks, Tok("unterminated", acc))
    ELSE IF s[i] = Q THEN
        IF i + 1 <= Len(s) /\ s[i + 1] = Q
        THEN LexStr(s, i + 2, Append(acc, Q), toks)
        ELSE Lex(s, i + 1, Append(toks, Tok("str", acc)))
    ELSE LexStr(s, i + 1, Append(acc, s[i]), toks)

FragCol(f) ==
    CASE f = "where id=" -> "id"
      [] f \in { "where service=", "where service like " } -> "service"
      [] f \in { "where username like ", " and username=" } -> "username"
      [] OTHER -> "tag"
FragOp(f) ==
    IF f \in { "where id=", "where service=", " and username=" } THEN "=" ELSE "like"

\* cond ::= kw str ( % str )* ; clause ::= cond ( cond )*.  A modulo of two
\* non-numeric strings is x % 0, which is NULL.  Result: ok and the conditions.
RECURSIVE ParseOperand(_, _), ParseConds(_, _, _)
\* index of the first token after the ( % str )* that starts at i
ParseOperand(toks, i) ==
    IF i + 1 <= Len(toks) /\ toks[i].t = "pct" /\ toks[i + 1].t = "str"
    THEN ParseOperand(toks, i + 2)
    ELSE i
ParseConds(toks, i, conds) ==
    IF i > Len(toks) THEN [ok |-> conds # << >>, conds |-> conds]
    ELSE IF i + 1 > Len(toks) \/ toks[i].t # "kw" \/ toks[i + 1].t # "str"
         \/ (i = 1) # (toks[i].v[1] \in WhereFrags)
    THEN [ok |-> FALSE, conds |-> << >>]
    ELSE LET next == ParseOperand(toks, i + 2)
             cond == [col |-> FragCol(toks[i].v[1]),
                      op  |-> FragOp(toks[i].v[1]),
                      val |-> IF next = i + 2 THEN Some(toks[i + 1].v) ELSE None]
         IN  ParseConds(toks, next, Append(conds, cond))
ParseWhere(clause) == ParseConds(Lex(clause, 1, << >>), 1, << >>)

\* LIKE: % any run, _ any one character, letters compared without case
RECURSIVE LikeFrom(_, _, _, _)
LikeFrom(p, i, s, j) ==
    IF i > Len(p) THEN j > Len(s)
    ELSE IF p[i] = "%" THEN
        LikeFrom(p, i + 1, s, j) \/ (j <= Len(s) /\ LikeFrom(p, i, s, j + 1))
    ELSE IF j > Len(s) THEN FALSE
    ELSE IF p[i] = "_" THEN LikeFrom(p, i + 1, s, j + 1)
    ELSE Lower(p[i]) = Lower(s[j]) /\ LikeFrom(p, i + 1, s, j + 1)
Like(p, s) == LikeFrom(p, 1, s, 1)

\* the integer a text literal converts to when compared with the INTEGER
\* column id; None when the text is no integer literal
Digits == << "1", "2", "3", "4", "5", "6", "7", "8", "9" >>
Digit(c) == IF c = "0" THEN 0 ELSE CHOOSE d \in 1..9 : Digits[d] = c
RECURSIVE DecVal(_)
DecVal(t) == IF t = << >> THEN 0 ELSE 10 * DecVal(SubSeq(t, 1, Len(t) - 1)) + Digit(t[Len(t)])
IntOfText(t) ==
    IF t # << >> /\ \A k \in 1..Len(t) : t[k] = "0" \/ \E d \in 1..9 : Digits[d] = t[k]
    THEN Some(DecVal(t)) ELSE None

CondHolds(c, r) ==
    /\ c.val # None
    /\ IF c.col = "id" THEN IntOfText(c.val[1]) = Some(r.id)
       ELSE IF c.op = "=" THEN r[c.col] = c.val[1]
       ELSE Like(c.val[1], r[c.col])


\* rows of ACCOUNT the clause selects, as db.query returns them: in id order
RECURSIVE SortById(_)
SortById(rows) ==
    IF rows = {} THEN << >>
    ELSE LET first == CHOOSE r \in rows : \A o \in rows : r.id <= o.id
         IN  << first >> \o SortById(rows \ { first })

\* db.query(f"select * from ACCOUNT {whereClause}"): error (an exception the
\* program does not catch) or the selected rows.  f"{None}" is the text
\* None, which SQL reads as a table alias.
Query(rows, whereClause) ==
    IF whereClause = None THEN [error |-> FALSE, rows |-> SortById(rows)]
    ELSE LET parsed == ParseWhere(whereClause[1])
         IN  IF ~parsed.ok THEN [error |-> TRUE, rows |-> << >>]
             ELSE [error |-> FALSE,
                   rows |-> SortById({ r \in rows :
                       \A k \in 1..Len(parsed.conds) : CondHolds(parsed.conds[k], r) })]

\* ------------------------------------------------------------ cipher engine
\* GnuPG, as python-gnupg drives it.  A ciphertext remembers the mode of its
\* envelope, what opens it (the passphrase, or the recipient whose private
\* key is needed) and the plaintext inside.
Plaintexts == { "p1", "p2" }
Keys == { "k1", "k2" }
Recipients == { "alice" }
\* the private keys of the configured keyring
SecretKeys == { "alice" }
SymValues == { "True", "False", "true" }

NoCipher == [mode |-> "none", lock |-> "", plain |-> ""]

\* a text that is no OpenPGP message
Clear(data) == [mode |-> "clear", lock |-> "", plain |-> data]

GpgEncrypt(req, engineOk) ==
    [ok |-> engineOk,
     data |-> IF req.symmetric
              THEN [mode |-> "sym", lock |-> req.passphrase[1], plain |-> req.data]
              ELSE [mode |-> "pub", lock |-> req.recipients[1], plain |-> req.data]]

GpgDecrypt(data, passphrase, engineOk) ==
    [ok |-> /\ engineOk
            /\ \/ data.mode = "sym" /\ passphrase = Some(data.lock)
               \/ data.mode = "pub" /\ data.lock \in SecretKeys,
     data |-> data.plain]

\* ------------------------------------------------------- cipher controller
getGPGconfig(cfgfile) ==
    [home |-> cfgfile.gnupg_home, keyring |-> cfgfile.keyring,
     recipients |-> cfgfile.recipients,
     symmetric |-> cfgfile.symmetric_encryption, key |-> cfgfile.key]

GPGCipher(gnupghome, keyring, recipients, symmetric) ==
    [gnupghome |-> gnupghome, keyring |-> keyring,
     recipients |-> recipients, symmetric |-> symmetric]

\* GPGCipher.encrypt taking every value but 'False' for shared-secret
GPGCipher_encrypt_AnyButFalse(self, data, passphrase, engineOk) ==
    LET req == IF self.symmetric # "False"
               THEN [data |-> data, recipients |-> None, symmetric |-> TRUE,
                     passphrase |-> Some(passphrase), always_trust |-> FALSE]
               ELSE [data |-> data, recipients |-> Some(self.recipients),
                     symmetric |-> FALSE, passphrase |-> None, always_trust |-> TRUE]
        crypted == GpgEncrypt(req, engineOk)
    IN  IF crypted.ok
        THEN [exit |-> 0, value |-> crypted.data, req |-> req, ok |-> crypted.ok]
        ELSE [exit |-> 96, value |-> NoCipher, req |-> req, ok |-> crypted.ok]

\* GPGCipher.encrypt returning nothing, instead of exiting, when not ok
GPGCipher_encrypt_Returns(self, data, passphrase, engineOk) ==
    LET req == IF self.symmetric = "True"
               THEN [data |-> data, recipients |-> None, symmetric |-> TRUE,
                     passphrase |-> Some(passphrase), always_trust |-> FALSE]
               ELSE [data |-> data, recipients |-> Some(self.recipients),
                     symmetric |-> FALSE, passphrase |-> None, always_trust |-> TRUE]
        crypted == GpgEncrypt(req, engineOk)
    IN  IF crypted.ok
        THEN [exit |-> 0, value |-> crypted.data, req |-> req, ok |-> crypted.ok]
        ELSE [exit |-> 0, value |-> NoCipher, req |-> req, ok |-> crypted.ok]

\* GPGCipher.encrypt: the request handed to the engine, and exit status 96
\* when the engine's answer is not ok
GPGCipher_encrypt(self, data, passphrase, engineOk) ==
    LET req == IF self.symmetric = "True"
               THEN [data |-> data, recipients |-> None, symmetric |-> TRUE,
                     passphrase |-> Some(passphrase), always_trust |-> FALSE]
               ELSE [data |-> data, recipients |-> Some(self.recipients),
                     symmetric |-> FALSE, passphrase |-> None, always_trust |-> TRUE]
        crypted == GpgEncrypt(req, engineOk)
    IN  IF crypted.ok
        THEN [exit |-> 0, value |-> crypted.data, req |-> req, ok |-> crypted.ok]
        ELSE [exit |-> 96, value |-> NoCipher, req |-> req, ok |-> crypted.ok]

\* GPGCipher.decrypt handing the passphrase over in shared-secret mode only
GPGCipher_decrypt_ByMode(self, data, passphrase, engineOk) ==
    LET clear == GpgDecrypt(data,
                            IF self.symmetric = "True" THEN Some(passphrase) ELSE None,
                            engineOk)
    IN  IF clear.ok
        THEN [exit |-> 0, value |-> clear.data, ok |-> clear.ok]
        ELSE [exit |-> 97, value |-> "", ok |-> clear.ok]

\* GPGCipher.decrypt: no branch on self.symmetric; exit status 97 on failure
GPGCipher_decrypt(self, data, passphrase, engineOk) ==
    LET clear == GpgDecrypt(data, Some(passphrase), engineOk)
    IN  IF clear.ok
        THEN [exit |-> 0, value |-> clear.data, ok |-> clear.ok]
        ELSE [exit |-> 97, value |-> "", ok |-> clear.ok]

\* EncryptPassword ignoring transcode
EncryptPassword_NoFlip(data, cfgfile, transcode, engineOk) ==
    LET c == getGPGconfig(cfgfile)
        cipher == GPGCipher(c.home, c.keyring, c.recipients, c.symmetric)
        encoded == GPGCipher_encrypt(cipher, data, c.key, engineOk)
    IN  [exit |-> encoded.exit, value |-> encoded.value, req |-> encoded.req,
         ok |-> encoded.ok, cfgfile |-> cfgfile]

\* EncryptPassword writing the flipped mode back to the settings
EncryptPassword_Persists(data, cfgfile, transcode, engineOk) ==
    LET c == getGPGconfig(cfgfile)
        symmetric == IF transcode
                     THEN (IF c.symmetric = "True" THEN "False" ELSE "True")
                     ELSE c.symmetric
        cipher == GPGCipher(c.home, c.keyring, c.recipients, symmetric)
        encoded == GPGCipher_encrypt(cipher, data, c.key, engineOk)
    IN  [exit |-> encoded.exit, value |-> encoded.value, req |-> encoded.req,
         ok |-> encoded.ok,
         cfgfile |-> [cfgfile EXCEPT !.symmetric_encryption = symmetric]]

\* EncryptPassword handing back the text it was given
EncryptPassword_Clear(data, cfgfile, transcode, engineOk) ==
    LET c == getGPGconfig(cfgfile)
        symmetric == IF transcode
                     THEN (IF c.symmetric = "True" THEN "False" ELSE "True")
                     ELSE c.symmetric
        cipher == GPGCipher(c.home, c.keyring, c.recipients, symmetric)
        encoded == GPGCipher_encrypt(cipher, data, c.key, engineOk)
    IN  [exit |-> encoded.exit, value |-> Clear(data), req |-> encoded.req,
         ok |-> encoded.ok, cfgfile |-> cfgfile]

\* EncryptPassword: cfgfile is the settings store as the call finds it and as
\* the call leaves it
EncryptPassword(data, cfgfile, transcode, engineOk) ==
    LET c == getGPGconfig(cfgfile)
        symmetric == IF transcode
                     THEN (IF c.symmetric = "True" THEN "False" ELSE "True")
                     ELSE c.symmetric
        cipher == GPGCipher(c.home, c.keyring, c.recipients, symmetric)
        encoded == GPGCipher_encrypt(cipher, data, c.key, engineOk)
    IN  [exit |-> encoded.exit, value |-> encoded.value, req |-> encoded.req,
         ok |-> encoded.ok, cfgfile |-> cfgfile]

DecryptPassword(data, cfgfile, engineOk) ==
    LET c == getGPGconfig(cfgfile)
        cipher == GPGCipher(c.home, c.keyring, c.recipients, c.symmetric)
    IN  GPGCipher_decrypt(cipher, data, c.key, engineOk)

\* ----------------------------------------------------------- displayResults
\* what the display writes back into every row it shows
NullMark == << "--", " ", "Null", " ", "--" >>
OrNull(t) == IF t = << >> THEN NullMark ELSE t
Normalised(r) ==
    [r EXCEPT !.service = OrNull(r.service), !.username = OrNull(r.username),
              !.tag = OrNull(r.tag), !.note = OrNull(r.note)]

\* exit status 97 when a password is to be shown and cannot be decrypted
displayResults(rows, cfgfile, showpassword, engineOk) ==
    [exit |-> IF showpassword /\ \E k \in 1..Len(rows) :
                     DecryptPassword(rows[k].password, cfgfile, engineOk).exit # 0
              THEN 97 ELSE 0,
     rows |-> [k \in 1..Len(rows) |-> Normalised(rows[k])]]


\* --------------------------------------------------------------- exportEntry
\* re.split(r'\s+', tag.strip()): the runs of non-blank characters; a tag
\* with none gives one empty segment
RECURSIVE Segments(_, _, _)
Segments(t, i, cur) ==
    IF i > Len(t) THEN (IF cur = << >> THEN << >> ELSE << cur >>)
    ELSE IF t[i] = " "
    THEN (IF cur = << >> THEN << >> ELSE << cur >>) \o Segments(t, i + 1, << >>)
    ELSE Segments(t, i + 1, Append(cur, t[i]))
SplitTag(tag) ==
    LET segs == Segments(tag, 1, << >>)
    IN  IF segs = << >> THEN << << >> >> ELSE segs

GpgFile(password) == [kind |-> "gpg", password |-> password, entry |-> None]
JsonFile(entry) == [kind |-> "json", password |-> NoCipher, entry |-> Some(entry)]
WriteFile(fs, path, content) ==
    { f \in fs : f.path # path } \cup { [path |-> path, content |-> content] }

ExportPath(entry, root) ==
    << root >> \o SplitTag(entry.tag) \o << entry.service \o << ".gpg" >> >>
exportEntry(fs, entry, root) ==
    WriteFile(fs, ExportPath(entry, root), GpgFile(entry.password))

\* ==================================================================== state
VARIABLES
    db,           \* the rows of ACCOUNT
    settings,     \* the configuration file
    files,        \* the files the program wrote: exports, backups, copies
    pc,           \* "idle", in a loop ("delete", "transcode"), "done" or "exited"
    exit,         \* the exit status of the terminated process
    out,          \* what the cipher controller and transcodeDb printed
    args,         \* the arguments of the running search / delete
    whereClause,  \* the clause it built
    results,      \* the rows it iterates over
    pos,          \* the index of the next row of the loop
    deleted,      \* deleteEntries' list (its return value)
    answers,      \* the answers given to "Yes/No ? ", with the row asked about
    storeOps,     \* store operations the running handler performed so far
    calls,        \* the cipher calls of the last step, in order
    dbBefore,     \* the rows when the running handler started
    cfgBefore,    \* the configuration when the running handler started
    edited,       \* the configuration was edited since the handler started
    passes,       \* transcode passes completed in a row, nothing in between
    dbOrig,       \* the rows before the first of these passes
    lastAct       \* the last step taken

vars == << db, settings, files, pc, exit, out, args, whereClause, results, pos,
           deleted, answers, storeOps, calls, dbBefore, cfgBefore, edited,
           passes, dbOrig, lastAct >>

Configs ==
    [gnupg_home : { "~/.gnupg" }, keyring : { "pubring.kbx" },
     recipients : Recipients, symmetric_encryption : SymValues, key : Keys]

NoArgs == [id |-> None, service |-> None, username |-> None, tag |-> None,
           showpassword |-> FALSE, backup |-> FALSE]
QueryArgs ==
    [id : Optional(IdTexts), service : Optional(Texts), username : Optional(Texts),
     tag : Optional(Texts), showpassword : BOOLEAN, backup : BOOLEAN]
\* search takes no backup argument
SearchArgs ==
    [id : Optional(IdTexts), service : Optional(Texts), username : Optional(Texts),
     tag : Optional(Texts), showpassword : BOOLEAN, backup : { FALSE }]
\* the engine is only called when passwords are shown
EngineStates(a) == IF a.showpassword THEN BOOLEAN ELSE { TRUE }

NoReq == [data |-> "", recipients |-> None, symmetric |-> FALSE,
          passphrase |-> None, always_trust |-> FALSE]
EncCall(data, cfg, transcode, r) ==
    [op |-> "encrypt", transcode |-> transcode, cfg |-> cfg, plain |-> data,
     cipher |-> r.value, req |-> r.req, ok |-> r.ok, exit |-> r.exit]
DecCall(data, cfg, r) ==
    [op |-> "decrypt", transcode |-> FALSE, cfg |-> cfg, plain |-> r.value,
     cipher |-> data, req |-> NoReq, ok |-> r.ok, exit |-> r.exit]

\* the decrypt calls of displayResults: one per row, up to the first failure
RECURSIVE DisplayCalls(_, _, _, _)
DisplayCalls(rows, k, cfg, engineOk) ==
    IF k > Len(rows) THEN << >>
    ELSE LET r == DecryptPassword(rows[k].password, cfg, engineOk)
         IN  << DecCall(rows[k].password, cfg, r) >>
             \o (IF r.exit # 0 THEN << >> ELSE DisplayCalls(rows, k + 1, cfg, engineOk))

Line(msg, ids) == [msg |-> msg, ids |-> ids]
\* the two lines a failing cipher call prints before sys.exit
FailureLines(code) ==
    IF code = 96
    THEN << Line("encription error with status", {}), Line("Check if key cache expired", {}) >>
    ELSE IF code = 97
    THEN << Line("decription error with status", {}), Line("Check if key cache expired", {}) >>
    ELSE << >>

\* a handler starts: its locals are fresh
Begin(a) ==
    /\ args' = a
    /\ dbBefore' = db
    /\ cfgBefore' = settings
    /\ edited' = FALSE
\* nothing but transcode passes keeps the count of passes
NoPass == passes' = 0 /\ dbOrig' = {}
\* the process terminates with status code
Die(code) == pc' = "exited" /\ exit' = code
\* the handler returns and the process ends normally
Return == pc' = "done" /\ exit' = 0


\* ------------------------------------------------------- search and delete
\* the check of the clause left out
NoPredicate_Never(w) == FALSE

\* "if not whereClause": the builder gave no predicate
NoPredicate(w) == w = None

\* search(dbfile, cfgfile, id, service, username, tag, showpassword)
search(a, engineOk) ==
    /\ pc = "idle"
    /\ Begin(a)
    /\ NoPass
    /\ lastAct' = "Search"
    /\ LET w == buildWhereClause(a.id, a.service, a.username, a.tag)
           q == Query(db, w)
           d == displayResults(q.rows, settings, a.showpassword, engineOk)
       IN  /\ whereClause' = w
           /\ IF NoPredicate(w) THEN
                  /\ Return
                  /\ results' = << >> /\ storeOps' = 0 /\ calls' = << >>
                  /\ out' = << >>
              ELSE IF q.error THEN
                  /\ Die(1)
                  /\ results' = << >> /\ storeOps' = 1 /\ calls' = << >>
                  /\ out' = << >>
              ELSE
                  /\ results' = d.rows /\ storeOps' = 1
                  /\ calls' = IF a.showpassword
                              THEN DisplayCalls(q.rows, 1, settings, engineOk)
                              ELSE << >>
                  /\ out' = FailureLines(d.exit)
                  /\ IF d.exit # 0 THEN Die(d.exit) ELSE Return
    /\ pos' = 1 /\ deleted' = << >> /\ answers' = << >>
    /\ UNCHANGED << db, settings, files >>

\* deleteEntries, up to the first "Yes/No ? "
deleteEntries(a, engineOk) ==
    /\ pc = "idle"
    /\ Begin(a)
    /\ NoPass
    /\ lastAct' = "DeleteStart"
    /\ LET w == buildWhereClause(a.id, a.service, a.username, a.tag)
           q == Query(db, w)
           d == displayResults(q.rows, settings, a.showpassword, engineOk)
       IN  /\ whereClause' = w
           /\ IF NoPredicate(w) THEN
                  /\ Return
                  /\ results' = << >> /\ storeOps' = 0 /\ calls' = << >>
                  /\ out' = << >>
              ELSE IF q.error THEN
                  /\ Die(1)
                  /\ results' = << >> /\ storeOps' = 1 /\ calls' = << >>
                  /\ out' = << >>
              ELSE IF q.rows = << >> THEN
                  /\ Return
                  /\ results' = << >> /\ storeOps' = 1 /\ calls' = << >>
                  /\ out' = << >>
              ELSE
                  /\ results' = d.rows /\ storeOps' = 1
                  /\ calls' = IF a.showpassword
                              THEN DisplayCalls(q.rows, 1, settings, engineOk)
                              ELSE << >>
                  /\ out' = FailureLines(d.exit)
                  /\ IF d.exit # 0 THEN Die(d.exit) ELSE pc' = "delete" /\ exit' = 0
    /\ pos' = 1 /\ deleted' = << >> /\ answers' = << >>
    /\ UNCHANGED << db, settings, files >>

\* what may be typed at "Yes/No ? "
AnswerTexts == { << >>, << "y" >>, << "Y" >>, << "n" >>, << "n", "y" >>,
                 << "y", "e", "s" >> }
\* an empty answer taken for yes
Affirmative_DefaultYes(selection) == selection = << >> \/ Lower(selection[1]) = "y"

\* "selection and selection[0].lower() == 'y'"
Affirmative(selection) == selection # << >> /\ Lower(selection[1]) = "y"

BackupDir == << "./_DELETED" >>

\* one turn of deleteEntries' loop: the prompt for results[pos] and what
\* follows from the answer; after the last row the list is returned
deleteEntries_loop(selection) ==
    /\ pc = "delete"
    /\ pos <= Len(results)
    /\ lastAct' = "DeleteAnswer"
    /\ LET e == results[pos]
       IN  /\ answers' = Append(answers, [id |-> e.id, selection |-> selection])
           /\ IF Affirmative(selection) THEN
                  /\ files' = IF args.backup THEN exportEntry(files, e, BackupDir)
                              ELSE files
                  /\ db' = { r \in db : r.id # e.id }
                  /\ deleted' = Append(deleted, e)
                  /\ storeOps' = storeOps + 1
              ELSE
                  UNCHANGED << files, db, deleted, storeOps >>
    /\ pos' = pos + 1
    /\ IF pos = Len(results) THEN Return ELSE UNCHANGED << pc, exit >>
    /\ calls' = << >>
    /\ UNCHANGED << settings, out, args, whereClause, results, dbBefore,
                    cfgBefore, edited, passes, dbOrig >>

\* the program is run again, after it returned or terminated
Launch ==
    /\ pc \in { "done", "exited" }
    /\ pc' = "idle" /\ exit' = 0
    /\ Begin(NoArgs)
    /\ whereClause' = None /\ results' = << >> /\ pos' = 1
    /\ deleted' = << >> /\ answers' = << >> /\ storeOps' = 0
    /\ calls' = << >> /\ out' = << >>
    /\ lastAct' = "Launch"
    /\ UNCHANGED << db, settings, files, passes, dbOrig >>


\* ------------------------------------------------------------ vault handlers
\* someone edits one key of the configuration file
set_config(k, v) ==
    /\ pc \in { "idle", "transcode" }
    /\ settings[k] # v
    /\ settings' = [settings EXCEPT ![k] = v]
    /\ IF pc = "idle" THEN cfgBefore' = settings' /\ edited' = FALSE
       ELSE cfgBefore' = cfgBefore /\ edited' = TRUE
    /\ NoPass
    /\ lastAct' = "EditConfig"
    /\ UNCHANGED << db, files, pc, exit, out, args, whereClause, results, pos,
                    deleted, answers, storeOps, calls, dbBefore >>

\* what is typed at "Service: ", "Username: ", "Tag: "
Services == { << "a" >> }
Usernames == { << "u" >> }
Tags == { << "w", " ", "p" >> }
CreatedNote == << "created" >>

\* the id SQLite gives a row inserted without one
NextId(rows) ==
    IF rows = {} THEN 1
    ELSE (CHOOSE m \in { r.id : r \in rows } : \A r \in rows : r.id <= m) + 1

\* inputEntry: the password is typed or generated, encrypted, and the row
\* inserted
inputEntry(service, username, clear, tag, engineOk) ==
    /\ pc = "idle"
    /\ Cardinality(db) < MaxRows
    /\ Begin(NoArgs)
    /\ NoPass
    /\ lastAct' = "InputEntry"
    /\ LET enc == EncryptPassword(clear, settings, FALSE, engineOk)
       IN  /\ calls' = << EncCall(clear, settings, FALSE, enc) >>
           /\ settings' = enc.cfgfile
           /\ out' = FailureLines(enc.exit)
           /\ IF enc.exit # 0 THEN
                  /\ Die(enc.exit)
                  /\ UNCHANGED db
                  /\ storeOps' = 0
              ELSE
                  /\ db' = db \cup { [id |-> NextId(db), service |-> service,
                                      username |-> username, password |-> enc.value,
                                      tag |-> tag, note |-> CreatedNote] }
                  /\ storeOps' = 1
                  /\ Return
    /\ whereClause' = None /\ results' = << >> /\ pos' = 1
    /\ deleted' = << >> /\ answers' = << >>
    /\ UNCHANGED files

CopyPath(entry) ==
    << << "_copy" >>,
       << Digits[entry.id], "_" >> \o entry.service \o << "_" >> \o entry.username
          \o << ".json" >> >>

\* updateEntry: get the row, keep a copy, decrypt, let the editor change the
\* entry (the id is left out of what the editor is given; newId is the id the
\* editor's content has, if it was put back), encrypt, update the row with
\* every column of the content
updateEntry(id, service, clear, newId, okDec, okEnc) ==
    /\ pc = "idle"
    /\ Cardinality(files) < MaxCopies
    /\ Begin([NoArgs EXCEPT !.id = Some(<< Digits[id] >>)])
    /\ NoPass
    /\ lastAct' = "UpdateEntry"
    /\ whereClause' = None /\ results' = << >> /\ pos' = 1
    /\ deleted' = << >> /\ answers' = << >>
    /\ IF ~\E r \in db : r.id = id THEN
           /\ Die(89)
           /\ storeOps' = 1 /\ calls' = << >> /\ out' = << >>
           /\ UNCHANGED << db, settings, files >>
       ELSE
           LET entry == CHOOSE r \in db : r.id = id
               dec == DecryptPassword(entry.password, settings, okDec)
               enc == EncryptPassword(clear, settings, FALSE, okEnc)
               edit == [entry EXCEPT !.service = service, !.password = enc.value,
                                     !.id = IF newId = None THEN id ELSE newId[1]]
               taken == \E r \in db : r.id # id /\ r.id = edit.id
           IN  /\ files' = WriteFile(files, CopyPath(entry), JsonFile(entry))
               /\ IF dec.exit # 0 THEN
                      /\ Die(dec.exit)
                      /\ calls' = << DecCall(entry.password, settings, dec) >>
                      /\ out' = FailureLines(dec.exit)
                      /\ storeOps' = 1
                      /\ UNCHANGED << db, settings >>
                  ELSE IF enc.exit # 0 THEN
                      /\ Die(enc.exit)
                      /\ calls' = << DecCall(entry.password, settings, dec),
                                     EncCall(clear, settings, FALSE, enc) >>
                      /\ out' = FailureLines(enc.exit)
                      /\ storeOps' = 1
                      /\ settings' = enc.cfgfile
                      /\ UNCHANGED db
                  ELSE
                      /\ calls' = << DecCall(entry.password, settings, dec),
                                     EncCall(clear, settings, FALSE, enc) >>
                      /\ out' = << >>
                      /\ storeOps' = 2
                      /\ settings' = enc.cfgfile
                      /\ IF taken THEN Die(1) /\ UNCHANGED db
                         ELSE /\ Return
                              /\ db' = { IF r.id = id THEN edit ELSE r : r \in db }

\* str.strip(): the text without its leading and trailing blanks
RECURSIVE Strip(_)
Strip(t) ==
    IF t = << >> THEN t
    ELSE IF t[1] = " " THEN Strip(Tail(t))
    ELSE IF t[Len(t)] = " " THEN Strip(SubSeq(t, 1, Len(t) - 1))
    ELSE t

\* the files handed to --importFile: name, extension and content
DataFiles ==
    { [service |-> << "g" >>, ext |-> ".gpg",
       cipher |-> [mode |-> "sym", lock |-> "k1", plain |-> "p1"], clear |-> ""],
      [service |-> << "g" >>, ext |-> ".gpg", cipher |-> Clear("p1"), clear |-> ""],
      [service |-> << "g", " " >>, ext |-> ".txt", cipher |-> NoCipher, clear |-> "p2"],
      [service |-> << ".", "h" >>, ext |-> "", cipher |-> NoCipher, clear |-> "p1"] }
ImportedNote == << "Imported" >>

\* insertEntry: the row composed and inserted
insertEntry(rows, service, password, username, tag) ==
    rows \cup { [id |-> NextId(rows), service |-> Strip(service),
                 username |-> IF Truthy(username) THEN Strip(username[1])
                              ELSE << "Import" >>,
                 password |-> password, tag |-> Strip(tag), note |-> ImportedNote] }

\* fileImport: a .gpg file is decrypted, any other file is read as it is; the
\* text is encrypted and the row inserted; a dot file is ignored
fileImport(datafile, username, tag, okDec, okEnc) ==
    /\ pc = "idle"
    /\ Cardinality(db) < MaxRows
    /\ Begin(NoArgs)
    /\ NoPass
    /\ lastAct' = "FileImport"
    /\ whereClause' = None /\ results' = << >> /\ pos' = 1
    /\ deleted' = << >> /\ answers' = << >>
    /\ IF datafile.service[1] = "." THEN
           /\ Return
           /\ storeOps' = 0 /\ calls' = << >> /\ out' = << >>
           /\ UNCHANGED << db, settings >>
       ELSE
           LET gpg == datafile.ext = ".gpg"
               dec == IF gpg THEN DecryptPassword(datafile.cipher, settings, okDec)
                      ELSE [exit |-> 0, value |-> datafile.clear, ok |-> TRUE]
               decCalls == IF gpg THEN << DecCall(datafile.cipher, settings, dec) >>
                           ELSE << >>
               enc == EncryptPassword(dec.value, settings, FALSE, okEnc)
               myTag == IF Truthy(tag) THEN tag[1] ELSE << "noTag" >>
           IN  IF dec.exit # 0 THEN
                   /\ Die(dec.exit)
                   /\ calls' = decCalls
                   /\ out' = FailureLines(dec.exit)
                   /\ storeOps' = 0
                   /\ UNCHANGED << db, settings >>
               ELSE
                   /\ calls' = decCalls \o << EncCall(dec.value, settings, FALSE, enc) >>
                   /\ out' = FailureLines(enc.exit)
                   /\ settings' = enc.cfgfile
                   /\ IF enc.exit # 0 THEN
                          /\ Die(enc.exit)
                          /\ storeOps' = 0
                          /\ UNCHANGED db
                      ELSE
                          /\ Return
                          /\ storeOps' = 1
                          /\ db' = insertEntry(db, datafile.service, enc.value,
                                               username, myTag)
    /\ UNCHANGED files

\* transcodeDb opens the cursor over ACCOUNT
transcodeDb ==
    /\ pc = "idle"
    /\ Begin(NoArgs)
    /\ pc' = "transcode" /\ exit' = 0
    /\ results' = SortById(db) /\ pos' = 1
    /\ storeOps' = 1
    /\ IF passes = 1 THEN UNCHANGED << passes, dbOrig >>
       ELSE passes' = 0 /\ dbOrig' = db
    /\ whereClause' = None /\ deleted' = << >> /\ answers' = << >>
    /\ calls' = << >> /\ out' = << >>
    /\ lastAct' = "TranscodeStart"
    /\ UNCHANGED << db, settings, files >>

\* transcodeDb's loop with the configuration read once, when the batch
\* starts
transcodeDb_loop_Cached(okDec, okEnc) ==
    /\ pc = "transcode"
    /\ pos <= Len(results)
    /\ lastAct' = "TranscodeStep"
    /\ LET entry == results[pos]
           dec == DecryptPassword(entry.password, cfgBefore, okDec)
           enc == EncryptPassword(dec.value, cfgBefore, TRUE, okEnc)
       IN  IF dec.exit # 0 THEN
               /\ Die(dec.exit)
               /\ calls' = << DecCall(entry.password, settings, dec) >>
               /\ out' = out \o FailureLines(dec.exit)
               /\ NoPass
               /\ UNCHANGED << db, settings, storeOps, pos >>
           ELSE IF enc.exit # 0 THEN
               /\ Die(enc.exit)
               /\ calls' = << DecCall(entry.password, settings, dec),
                              EncCall(dec.value, settings, TRUE, enc) >>
               /\ out' = out \o FailureLines(enc.exit)
               /\ settings' = settings
               /\ NoPass
               /\ UNCHANGED << db, storeOps, pos >>
           ELSE
               /\ calls' = << DecCall(entry.password, settings, dec),
                              EncCall(dec.value, settings, TRUE, enc) >>
               /\ db' = { IF r.id = entry.id THEN [r EXCEPT !.password = enc.value]
                          ELSE r : r \in db }
               /\ settings' = settings
               /\ storeOps' = storeOps + 1
               /\ pos' = pos + 1
               /\ UNCHANGED << pc, exit, out, passes, dbOrig >>
    /\ UNCHANGED << files, args, whereClause, results, deleted, answers,
                    dbBefore, cfgBefore, edited >>

\* one turn of transcodeDb's loop: decrypt, encrypt with transcode=True,
\* write the password back
transcodeDb_loop(okDec, okEnc) ==
    /\ pc = "transcode"
    /\ pos <= Len(results)
    /\ lastAct' = "TranscodeStep"
    /\ LET entry == results[pos]
           dec == DecryptPassword(entry.password, settings, okDec)
           enc == EncryptPassword(dec.value, settings, TRUE, okEnc)
       IN  IF dec.exit # 0 THEN
               /\ Die(dec.exit)
               /\ calls' = << DecCall(entry.password, settings, dec) >>
               /\ out' = out \o FailureLines(dec.exit)
               /\ NoPass
               /\ UNCHANGED << db, settings, storeOps, pos >>
           ELSE IF enc.exit # 0 THEN
               /\ Die(enc.exit)
               /\ calls' = << DecCall(entry.password, settings, dec),
                              EncCall(dec.value, settings, TRUE, enc) >>
               /\ out' = out \o FailureLines(enc.exit)
               /\ settings' = enc.cfgfile
               /\ NoPass
               /\ UNCHANGED << db, storeOps, pos >>
           ELSE
               /\ calls' = << DecCall(entry.password, settings, dec),
                              EncCall(dec.value, settings, TRUE, enc) >>
               /\ db' = { IF r.id = entry.id THEN [r EXCEPT !.password = enc.value]
                          ELSE r : r \in db }
               /\ settings' = enc.cfgfile
               /\ storeOps' = storeOps + 1
               /\ pos' = pos + 1
               /\ UNCHANGED << pc, exit, out, passes, dbOrig >>
    /\ UNCHANGED << files, args, whereClause, results, deleted, answers,
                    dbBefore, cfgBefore, edited >>

\* after the last row: the reminder to update the configuration file
transcodeDb_end ==
    /\ pc = "transcode"
    /\ pos > Len(results)
    /\ Return
    /\ out' = Append(out, Line("Be sure to update cfgfile before run", {}))
    /\ IF edited THEN NoPass ELSE passes' = passes + 1 /\ UNCHANGED dbOrig
    /\ calls' = << >>
    /\ lastAct' = "TranscodeFinish"
    /\ UNCHANGED << db, settings, files, args, whereClause, results, pos, deleted,
                    answers, storeOps, dbBefore, cfgBefore, edited >>

\* ------------------------------------------------------------ specifications
InitLocals ==
    /\ pc = "idle" /\ exit = 0 /\ out = << >>
    /\ args = NoArgs /\ whereClause = None /\ results = << >> /\ pos = 1
    /\ deleted = << >> /\ answers = << >> /\ storeOps = 0 /\ calls = << >>
    /\ edited = FALSE /\ passes = 0 /\ dbOrig = {}
    /\ lastAct = "Launch"

\* the vault: a new database, any configuration
Init ==
    /\ db = {} /\ files = {}
    /\ settings \in Configs
    /\ dbBefore = {} /\ cfgBefore = settings
    /\ InitLocals

\* the steps, each with its inputs
EditConfig ==
    /\ pc = "idle"
    /\ \/ \E v \in SymValues : set_config("symmetric_encryption", v)
       \/ \E v \in Keys : set_config("key", v)
       \/ \E v \in Recipients : set_config("recipients", v)
InputEntry ==
    /\ pc = "idle"
    /\ \E s \in Services, u \in Usernames, c \in Plaintexts, t \in Tags,
          ok \in BOOLEAN : inputEntry(s, u, c, t, ok)
UpdateEntry ==
    /\ pc = "idle"
    /\ \E i \in 1..(MaxRows + 1), s \in Services, c \in Plaintexts,
          okDec \in BOOLEAN, okEnc \in BOOLEAN : updateEntry(i, s, c, None, okDec, okEnc)
TranscodeStep ==
    /\ pc = "transcode"
    /\ \E okDec \in BOOLEAN, okEnc \in BOOLEAN : transcodeDb_loop(okDec, okEnc)
Search ==
    /\ pc = "idle"
    /\ \E a \in SearchArgs : \E ok \in EngineStates(a) : search(a, ok)
DeleteStart ==
    /\ pc = "idle"
    /\ \E a \in QueryArgs : \E ok \in EngineStates(a) : deleteEntries(a, ok)
DeleteAnswer ==
    /\ pc = "delete"
    /\ \E sel \in AnswerTexts : deleteEntries_loop(sel)

Next ==
    \/ EditConfig
    \/ InputEntry
    \/ UpdateEntry
    \/ transcodeDb
    \/ TranscodeStep
    \/ transcodeDb_end
    \/ Launch

Spec == Init /\ [][Next]_vars

\* the queries: a vault of two entries, the second under a passphrase that is
\* no longer the configured one
UnderK1 == [mode |-> "sym", lock |-> "k1", plain |-> "p1"]
UnderK2 == [mode |-> "sym", lock |-> "k2", plain |-> "p2"]
SampleRows ==
    { [id |-> 1, service |-> << "a" >>, username |-> << "a" >>,
       password |-> UnderK1, tag |-> << "a", " ", "b" >>, note |-> CreatedNote],
      [id |-> 2, service |-> << "a", "b" >>, username |-> << "A" >>,
       password |-> UnderK2, tag |-> << >>, note |-> << >>] }
SampleConfig ==
    [gnupg_home |-> "~/.gnupg", keyring |-> "pubring.kbx", recipients |-> "alice",
     symmetric_encryption |-> "True", key |-> "k1"]

InitQuery ==
    /\ db = SampleRows /\ files = {}
    /\ settings = SampleConfig
    /\ dbBefore = db /\ cfgBefore = settings
    /\ InitLocals

NextQuery ==
    \/ Search
    \/ DeleteStart
    \/ DeleteAnswer
    \/ Launch

SpecQuery == InitQuery /\ [][NextQuery]_vars

\* the vault under one configuration: entries typed in and imported, updated,
\* transcoded and deleted by id
InitStore ==
    /\ db = {} /\ files = {}
    /\ settings = SampleConfig
    /\ dbBefore = {} /\ cfgBefore = settings
    /\ InitLocals
FileImport ==
    /\ pc = "idle"
    /\ \E f \in DataFiles, okDec \in BOOLEAN, okEnc \in BOOLEAN :
          fileImport(f, None, None, okDec, okEnc)
DeleteArgs ==
    [id : { Some(<< "1" >>) }, service : { None }, username : { None },
     tag : { None }, showpassword : { FALSE }, backup : { FALSE }]
DeleteById ==
    /\ pc = "idle"
    /\ \E a \in DeleteArgs : deleteEntries(a, TRUE)
DeleteYesNo ==
    /\ pc = "delete"
    /\ \E sel \in { << "y" >>, << "n" >> } : deleteEntries_loop(sel)

NextStore ==
    \/ InputEntry
    \/ FileImport
    \/ UpdateEntry
    \/ transcodeDb
    \/ TranscodeStep
    \/ transcodeDb_end
    \/ DeleteById
    \/ DeleteYesNo
    \/ Launch

SpecStore == InitStore /\ [][NextStore]_vars

\* the vault under one configuration, updated with whatever the editor hands
\* back: the id put back into the content, or left out
UpdateEntryId ==
    /\ pc = "idle"
    /\ \E i \in 1..(MaxRows + 1), s \in Services, c \in Plaintexts,
          n \in Optional(1..(MaxRows + 1)), okDec \in BOOLEAN, okEnc \in BOOLEAN :
              updateEntry(i, s, c, n, okDec, okEnc)

NextUpdate ==
    \/ InputEntry
    \/ UpdateEntryId
    \/ transcodeDb
    \/ TranscodeStep
    \/ transcodeDb_end
    \/ Launch

SpecUpdate == InitStore /\ [][NextUpdate]_vars

\* the vault while its configuration is edited, also between two entries of
\* a transcode batch
EditDuringBatch ==
    /\ pc = "transcode"
    /\ \/ \E v \in SymValues : set_config("symmetric_encryption", v)
       \/ \E v \in Keys : set_config("key", v)

NextEdit ==
    \/ EditConfig
    \/ EditDuringBatch
    \/ InputEntry
    \/ transcodeDb
    \/ TranscodeStep
    \/ transcodeDb_end
    \/ Launch

SpecEdit == Init /\ [][NextEdit]_vars


\* =================================================================== claims
QueryActs == { "Search", "DeleteStart" }
Built == lastAct \in QueryActs
Ids(rows) == { r.id : r \in rows }
IdsOf(seq) == { seq[k].id : k \in 1..Len(seq) }

\* ---- the priority table of the query predicate builder
TableRow(a) ==
    IF Truthy(a.id) THEN 1
    ELSE IF Truthy(a.service) /\ Truthy(a.username) /\ Truthy(a.tag) THEN 2
    ELSE IF Truthy(a.service) /\ Truthy(a.username) THEN 3
    ELSE IF Truthy(a.service) /\ Truthy(a.tag) THEN 4
    ELSE IF Truthy(a.username) /\ Truthy(a.tag) THEN 5
    ELSE IF Truthy(a.service) THEN 6
    ELSE IF Truthy(a.username) THEN 7
    ELSE IF Truthy(a.tag) THEN 8
    ELSE 0
TableShape(row) ==
    CASE row = 1 -> << << "id", "exact" >> >>
      [] row = 2 -> << << "service", "exact" >>, << "username", "exact" >>,
                       << "tag", "substring" >> >>
      [] row = 3 -> << << "service", "exact" >>, << "username", "exact" >> >>
      [] row = 4 -> << << "service", "exact" >>, << "tag", "substring" >> >>
      [] row = 5 -> << << "username", "substring" >>, << "tag", "substring" >> >>
      [] row = 6 -> << << "service", "substring" >> >>
      [] row = 7 -> << << "username", "substring" >> >>
      [] row = 8 -> << << "tag", "substring" >> >>
      [] OTHER -> << >>
IsFrag(e) == e \in Frags
\* the columns and comparisons of a built clause, from its fixed pieces
ShapeOf(clause) ==
    LET fs == SelectSeq(clause, IsFrag)
    IN  [k \in 1..Len(fs) |->
            << FragCol(fs[k]), IF FragOp(fs[k]) = "=" THEN "exact" ELSE "substring" >>]

\* C1: for every combination of present and absent id, service, username and
\* tag, the clause buildWhereClause returns is the one of the first row of the
\* priority table whose condition holds, and it returns none only when no
\* input is present.
C1_PriorityTable ==
    Built =>
        /\ (whereClause = None) = (TableRow(args) = 0)
        /\ whereClause # None => ShapeOf(whereClause[1]) = TableShape(TableRow(args))

\* C2: when buildWhereClause gives no predicate, search and deleteEntries do
\* no store operation, ask no confirmation, leave the store as it was and
\* return normally (deleteEntries an empty list); no query is sent without a
\* predicate.
C2_NoPredicateNoStoreOps ==
    /\ Built /\ whereClause = None =>
          /\ storeOps = 0 /\ answers = << >> /\ calls = << >>
          /\ db = dbBefore
          /\ pc = "done" /\ exit = 0
          /\ results = << >> /\ deleted = << >>
    /\ Built /\ storeOps > 0 => whereClause # None
C2_Witness ==
    /\ lastAct = "DeleteStart" /\ whereClause = None
    /\ Truthy(args.username) /\ db # {} /\ pc = "done"

\* ---- literal matching
RECURSIVE ContainsAt(_, _, _)
ContainsAt(field, text, i) ==
    IF i + Len(text) - 1 > Len(field) THEN FALSE
    ELSE SubSeq(field, i, i + Len(text) - 1) = text \/ ContainsAt(field, text, i + 1)
Contains(field, text) == ContainsAt(field, text, 1)
FieldText(r, col) == IF col = "id" THEN << Digits[r.id] >> ELSE r[col]
\* the row matches the clause's comparisons, each read literally
LiteralHolds(r, a, shape) ==
    \A k \in 1..Len(shape) :
        IF shape[k][2] = "exact"
        THEN FieldText(r, shape[k][1]) = a[shape[k][1]][1]
        ELSE Contains(FieldText(r, shape[k][1]), a[shape[k][1]][1])

\* C3: for every filter text, also one holding a quote, % or _, the predicate
\* selects exactly the rows whose field equals the text (exact) or holds it as
\* a literal substring; no text makes it match every row.
C3_LiteralMatch ==
    Built /\ whereClause # None =>
        /\ exit # 1
        /\ IdsOf(results)
             = Ids({ r \in dbBefore : LiteralHolds(r, args, ShapeOf(whereClause[1])) })

\* ---- cipher modes
ConfMode(cfg) ==
    IF cfg.symmetric_encryption = "True" THEN "shared-secret" ELSE "identity"
Opposite(mode) == IF mode = "shared-secret" THEN "identity" ELSE "shared-secret"
CipherMode(ct) == IF ct.mode = "sym" THEN "shared-secret" ELSE "identity"
AllUnder(rows, mode) == \A r \in rows : CipherMode(r.password) = mode
EncCalls == { k \in 1..Len(calls) : calls[k].op = "encrypt" }
DecCalls == { k \in 1..Len(calls) : calls[k].op = "decrypt" }

\* C4: EncryptPassword uses the configured mode when transcode is false and
\* the opposite mode when it is true; shared-secret is the configured key as
\* passphrase and no recipients, identity is the configured recipients,
\* always trusted.
C4_ModeChoice ==
    \A k \in EncCalls :
        LET c == calls[k]
            mode == IF c.transcode THEN Opposite(ConfMode(c.cfg)) ELSE ConfMode(c.cfg)
        IN  IF mode = "shared-secret"
            THEN /\ c.req.symmetric
                 /\ c.req.passphrase = Some(c.cfg.key)
                 /\ c.req.recipients = None
            ELSE /\ ~c.req.symmetric
                 /\ c.req.recipients = Some(c.cfg.recipients)
                 /\ c.req.always_trust
C4_Witness ==
    \E k \in EncCalls :
        /\ calls[k].transcode /\ calls[k].cfg.symmetric_encryption = "true"
        /\ calls[k].req.symmetric /\ calls[k].ok

\* C5: no encrypt, decrypt or transcode step writes the settings; after a
\* complete transcodeDb over entries that were all under the configured mode
\* the configured mode is what it was, every entry is under the opposite
\* mode, and EncryptPassword with transcode=false uses the configured mode.
C5_SettingsNeverWritten ==
    /\ lastAct # "EditConfig" /\ ~edited => settings = cfgBefore
    /\ lastAct = "TranscodeFinish" /\ ~edited /\ AllUnder(dbBefore, ConfMode(cfgBefore)) =>
          /\ ConfMode(settings) = ConfMode(cfgBefore)
          /\ AllUnder(db, Opposite(ConfMode(settings)))
          /\ Ids(db) = Ids(dbBefore)
          /\ EncryptPassword("p1", settings, FALSE, TRUE).req.symmetric
                = (ConfMode(cfgBefore) = "shared-secret")
C5_Witness ==
    /\ lastAct = "TranscodeFinish" /\ ~edited
    /\ Cardinality(db) = 2
    /\ AllUnder(dbBefore, ConfMode(cfgBefore))
    /\ ConfMode(settings) = "identity"

SamePlain(rows, orig) ==
    /\ Ids(rows) = Ids(orig)
    /\ \A r \in rows : \E o \in orig : o.id = r.id /\ o.password.plain = r.password.plain
TwoPasses == passes = 2 /\ AllUnder(dbOrig, ConfMode(settings))

\* C6 (as claimed): two transcode passes in a row, the configuration not
\* edited in between, return every entry to the mode it was under before the
\* first pass, with the same plaintext.
C6_FlipsBack ==
    TwoPasses =>
        /\ SamePlain(db, dbOrig)
        /\ \A r \in db : \E o \in dbOrig :
               o.id = r.id /\ CipherMode(r.password) = CipherMode(o.password)

\* C6 (amended): two transcode passes in a row, the configuration not edited
\* in between, leave every entry under the opposite of the configured mode,
\* as the first pass did, with the same plaintext.
C6_SecondPassSameMode ==
    TwoPasses =>
        /\ SamePlain(db, dbOrig)
        /\ AllUnder(db, Opposite(ConfMode(settings)))
C6_Witness == TwoPasses /\ Cardinality(db) = 2 /\ lastAct = "TranscodeFinish"

\* ---- the batch that stops
TranscodeFailed == lastAct = "TranscodeStep" /\ pc = "exited" /\ ~edited
Converted == { results[k].id : k \in 1..(pos - 1) }
NotConverted == { results[k].id : k \in pos..Len(results) }
\* C7 (what holds of it): transcodeDb goes by ascending id and stops at the
\* first cipher failure; the entries before it are rewritten under the
\* opposite mode and the entries from it on are untouched.
C7_StopsAtFirstFailure ==
    TranscodeFailed =>
        /\ \A k \in 1..(Len(results) - 1) : results[k].id < results[k + 1].id
        /\ \A r \in db : r.id \in Converted =>
               CipherMode(r.password) = Opposite(ConfMode(settings))
        /\ \A r \in db : r.id \in NotConverted => r \in dbBefore
        /\ Ids(db) = Ids(dbBefore)

\* C7: transcodeDb goes by ascending id and stops at the first cipher
\* failure, the entries before it rewritten and the entries from it on
\* untouched, and the run reports which ids were converted and which not.
C7_StopsAndReports ==
    TranscodeFailed =>
        /\ C7_StopsAtFirstFailure
        /\ \E k \in 1..Len(out) : out[k].ids = NotConverted
        /\ \E k \in 1..Len(out) : out[k].ids = Converted

\* C8: when the engine reports a status that is not ok the process
\* terminates, with status 96 for encrypt and 97 for decrypt, and the failing
\* operation writes nothing to the store: no insert, no update, no
\* write-back.
C8_FatalExit ==
    \A k \in 1..Len(calls) :
        ~calls[k].ok =>
            /\ k = Len(calls)
            /\ pc = "exited"
            /\ exit = (IF calls[k].op = "encrypt" THEN 96 ELSE 97)
            /\ lastAct \in { "InputEntry", "UpdateEntry" } => db = dbBefore
            /\ lastAct = "TranscodeStep" =>
                   /\ pos <= Len(results) /\ results[pos] \in db
                   /\ storeOps = pos
C8_Witness ==
    /\ lastAct = "TranscodeStep" /\ pos = 2 /\ exit = 96
    /\ \E k \in EncCalls : ~calls[k].ok

StartsWithY(selection) == selection # << >> /\ selection[1] \in { "y", "Y" }
C10_ConfirmedDeletesOnly ==
    lastAct \in { "DeleteStart", "DeleteAnswer" } =>
        /\ Len(answers) = pos - 1
        /\ \A k \in 1..Len(answers) : answers[k].id = results[k].id
        /\ pc = "done" /\ lastAct = "DeleteAnswer" => Len(answers) = Len(results)
        /\ \A r \in dbBefore :
               (r \notin db) = (\E k \in 1..Len(answers) :
                                   answers[k].id = r.id /\ StartsWithY(answers[k].selection))
        /\ db \subseteq dbBefore
C10_Witness ==
    /\ lastAct = "DeleteAnswer" /\ pc = "done" /\ Len(results) = 2
    /\ answers[1].selection = << >> /\ answers[2].selection = << "Y" >>
    /\ Cardinality(db) = 1

\* ---- the backup kept of a deleted row
StoredRow(i) == CHOOSE r \in dbBefore : r.id = i
Confirmed == { k \in 1..Len(answers) : StartsWithY(answers[k].selection) }
\* C11 (what holds of it): with backup on, a confirmed row that has a service
\* and a tag is gone from the store and its backup is the file export writes
\* for it: the ciphertext, under the backup root at tag segments/service.gpg.
C11_BackupOfTaggedRow ==
    lastAct = "DeleteAnswer" /\ args.backup =>
        \A k \in Confirmed :
            LET r == StoredRow(answers[k].id)
            IN  r.tag # << >> /\ r.service # << >> =>
                    /\ r \notin db
                    /\ exportEntry({}, r, BackupDir) \subseteq files

\* C11: with backup on, deleteEntries has written the backup of every
\* confirmed row when the row is removed, and the backup is the file export
\* writes for the same entry: the same ciphertext at the path made of the
\* tag's whitespace-separated segments and service.gpg under the backup root.
C11_BackupIsExport ==
    lastAct = "DeleteAnswer" /\ args.backup =>
        \A k \in Confirmed :
            LET r == StoredRow(answers[k].id)
            IN  /\ r \notin db
                /\ exportEntry({}, r, BackupDir) \subseteq files

\* ---- what deleteEntries changes and returns
IsYes(a) == StartsWithY(a.selection)
Matched == IdsOf(Query(dbBefore, whereClause).rows)
\* C15 (what holds of it): deleteEntries only removes rows, each one matched
\* by the clause when it was queried and confirmed; the other rows are as
\* they were, and the list returned names the removed rows in the order they
\* were confirmed.
C15_RemovesConfirmedOnly ==
    lastAct \in { "DeleteStart", "DeleteAnswer" } =>
        LET yes == SelectSeq(answers, IsYes)
        IN  /\ db \subseteq dbBefore
            /\ Ids(dbBefore \ db) = IdsOf(yes)
            /\ whereClause # None /\ pc # "exited" => IdsOf(yes) \subseteq Matched
            /\ Len(deleted) = Len(yes)
            /\ \A j \in 1..Len(yes) : deleted[j].id = yes[j].id

\* C15: deleteEntries only removes rows that the clause matched when it was
\* queried and that were confirmed, leaves every other row as it was, inserts
\* and modifies none, and returns exactly the removed rows in the order they
\* were confirmed.
C15_DeleteFrame ==
    lastAct \in { "DeleteStart", "DeleteAnswer" } =>
        /\ C15_RemovesConfirmedOnly
        /\ \A j \in 1..Len(deleted) : deleted[j] \in dbBefore \ db

\* ---- what the password column holds
IsCiphertext(p) == p.mode \in { "sym", "pub" }
Passwords(rows) == { r.password : r \in rows }
Encrypted(cs) == { cs[k].cipher : k \in { j \in 1..Len(cs) : cs[j].op = "encrypt" /\ cs[j].ok } }
\* C12: whatever is inserted, imported, updated, transcoded or deleted, the
\* password of every stored entry is ciphertext, never a plaintext: every
\* step leaves each password as it was or sets it to what an encrypt call of
\* that step gave.
C12_PasswordIsCiphertext ==
    [][\A r \in db' :
           /\ IsCiphertext(r.password)
           /\ r.password \in Passwords(db) \cup Encrypted(calls')]_vars
C12_Witness ==
    /\ lastAct = "FileImport" /\ pc = "done"
    /\ DecCalls = {} /\ EncCalls # {}
    /\ \E r \in db : r.service = << "g" >> /\ r.password.plain = "p2"
    /\ \E r \in db : r.note = CreatedNote

\* ---- the id of an entry
Requested == IntOfText(args.id[1])[1]
\* C14 (what holds of it): transcodeDb leaves the id of every entry as it
\* was.
C14_TranscodeKeepsIds ==
    lastAct \in { "TranscodeStep", "TranscodeFinish" } =>
        /\ Ids(db) = Ids(dbBefore)
        /\ Cardinality(db) = Cardinality(dbBefore)

\* C14: the id of an entry never changes after insert: whatever the editor
\* hands back to updateEntry, also content with an id put into it, the entry
\* updated is the one with the requested id and it keeps its id; transcodeDb
\* leaves every id as it was.
C14_IdImmutable ==
    /\ C14_TranscodeKeepsIds
    /\ lastAct = "UpdateEntry" =>
           /\ Ids(db) = Ids(dbBefore)
           /\ \A r \in db : r.id # Requested => r \in dbBefore

\* ---- the configuration a cipher call works with
\* the request EncryptPassword makes under configuration cfg
UsesConfig(c, cfg) ==
    LET mode == IF c.transcode THEN Opposite(ConfMode(cfg)) ELSE ConfMode(cfg)
    IN  IF c.op = "encrypt"
        THEN IF mode = "shared-secret"
             THEN c.req.symmetric /\ c.req.passphrase = Some(cfg.key)
             ELSE ~c.req.symmetric /\ c.req.recipients = Some(cfg.recipients)
        ELSE c.ok /\ c.cipher.mode = "sym" => c.cipher.lock = cfg.key
\* C13: every EncryptPassword and DecryptPassword call works with the
\* settings as they are when it is made: after the mode or the key was
\* edited, also between two entries of a transcode batch, the next call uses
\* the edited configuration.
C13_ReadsConfigEveryCall ==
    lastAct # "EditConfig" => \A k \in 1..Len(calls) : UsesConfig(calls[k], settings)
C13_Witness ==
    /\ lastAct = "TranscodeStep" /\ edited /\ pos = 3
    /\ ConfMode(settings) # ConfMode(cfgBefore)
    /\ \E r \in db : r.id = results[1].id
                     /\ CipherMode(r.password) = Opposite(ConfMode(cfgBefore))
    /\ \E r \in db : r.id = results[2].id
                     /\ CipherMode(r.password) = Opposite(ConfMode(settings))

=============================================================================
